---- MODULE Spec2Model ----
(***************************************************************************)
(* Model of lettre's blocking SMTP network stream,                         *)
(* src/transport/smtp/client/net.rs: the dialer NetworkStream::connect     *)
(* (with its inner try_connect, bind_local_address and                     *)
(* resolved_address_filter), the in-place TLS upgrade upgrade_tls /        *)
(* upgrade_tls_impl, and the operations dispatched over InnerNetworkStream.*)
(***************************************************************************)
EXTENDS Integers, Sequences, FiniteSets, TLC

\* ------------------------------------------------------------------ bounds
\* Longest list of socket addresses the resolver returns for one host.
MaxCand == 2

\* ------------------------------------------------------------------ values
Families == {"V4", "V6"}

\* What the operating system does with one resolved address: "none" lets the
\* socket be created, bound and connected; "socket" fails Socket::new;
\* "bind" fails a bind when one is performed; "connect" fails the connect.
Fails == {"none", "socket", "bind", "connect"}

\* std::net::SocketAddr of a resolved address. The address itself is its
\* position in the resolver's answer (id); fam is V4/V6.
SocketAddr(i, fam, fail) == [id |-> i, fam |-> fam, fail |-> fail]

\* Every answer server.to_socket_addrs() can give: a list of 0..MaxCand
\* addresses (the Err answer is the resolveOk input of connect).
Resolutions ==
  UNION { { [i \in 1..n |-> SocketAddr(i, f[i][1], f[i][2])] :
              f \in [1..n -> Families \X Fails] } : n \in 0..MaxCand }

\* Option<IpAddr> local_addr, by family.
LocalAddrs == {"None", "V4", "V6"}

\* Option<Duration>.
Durations == {"None", "Some"}

\* std::net::Shutdown.
Shutdowns == {"Read", "Write", "Both"}

\* cargo features selecting the TLS backends of the build.
FeatureSets == SUBSET {"native-tls", "rustls-tls"}

\* InnerNetworkStream tags; "Gone" is a handle that was dropped or never built.
TcpTag == "Tcp"
NoneTag == "None"
GoneTag == "Gone"
EncryptedTags == {"NativeTls", "RustlsTls"}

\* The address the None arms of peer_addr make up: 127.0.0.1:80.
FabricatedAddr == -1
NoAddr == 0

\* TlsParameters: the connector's backend, whether domain() is a valid DNS
\* name, and whether the backend's handshake/session set-up succeeds.
TlsParametersOf(feats) ==
  IF feats = {}
    THEN { [connector |-> "none", domainValid |-> TRUE, hsOk |-> TRUE] }
    ELSE [connector : feats, domainValid : BOOLEAN, hsOk : BOOLEAN]

NoTls == [connector |-> "absent", domainValid |-> TRUE, hsOk |-> TRUE]

VARIABLES
  debug_assertions,  \* cfg!(debug_assertions): debug_assert! is compiled in
  windows,           \* cfg!(windows)
  features,          \* enabled TLS features of the build
  pc,                \* "idle", "dialing", "dialed", "ready", "failed", "aborted"
  timeout,           \* connect's timeout argument
  tls_parameters,    \* connect's tls_parameters argument (NoTls = None)
  local_addr,        \* connect's local_addr argument
  addrs,             \* try_connect's filtered iterator: [items, pos]
  last_err,          \* try_connect's last_err: [set, stage, addr]
  sockets,           \* log: [addr, domain, ok] of every Socket::new call
  binds,             \* log: [addr, to, port] of every bind call
  attempts,          \* log: [addr, timed] of every connect call
  handshakes,        \* log: [sock, backend, ok] of every upgrade_tls_impl call
  inner,             \* NetworkStream.inner: [tag, sock]
  tcp,               \* the owned TcpStream: [peer, open, shut, rt, wt]
  ret                \* what the last call returned to its caller

vars == <<debug_assertions, windows, features, pc, timeout, tls_parameters,
          local_addr, addrs, last_err, sockets, binds, attempts, handshakes,
          inner, tcp, ret>>

build == <<debug_assertions, windows, features>>
args == <<timeout, tls_parameters, local_addr>>
logs == <<sockets, binds, attempts>>

\* ----------------------------------------------------------------- results
Ret(op, res, kind, cause, addr, via) ==
  [op |-> op, res |-> res, kind |-> kind, cause |-> cause, addr |-> addr,
   via |-> via]

NoRet == Ret("", "", "", "", NoAddr, "")

\* error::connection(cause), error::client(cause), error::tls(cause)
ErrConnection(op, cause, addr) == Ret(op, "Err", "connection", cause, addr, "")
ErrClient(op, cause) == Ret(op, "Err", "client", cause, NoAddr, "")
ErrTls(op, cause) == Ret(op, "Err", "tls", cause, NoAddr, "")

\* A panic (panic!, unwrap on None, a failed debug_assert!).
Panic(op, cause) == Ret(op, "Panic", "", cause, NoAddr, "")

NoErr == [set |-> FALSE, stage |-> "", addr |-> NoAddr]
NoInner == [tag |-> GoneTag, sock |-> NoAddr]
NoTcp == [peer |-> NoAddr, open |-> FALSE, shut |-> {}, rt |-> "None",
          wt |-> "None"]
NoIter == [items |-> <<>>, pos |-> 0]

Init ==
  /\ debug_assertions \in BOOLEAN
  /\ windows \in BOOLEAN
  /\ features \in FeatureSets
  /\ pc = "idle"
  /\ timeout = "None"
  /\ tls_parameters = NoTls
  /\ local_addr = "None"
  /\ addrs = NoIter
  /\ last_err = NoErr
  /\ sockets = <<>>
  /\ binds = <<>>
  /\ attempts = <<>>
  /\ handshakes = <<>>
  /\ inner = NoInner
  /\ tcp = NoTcp
  /\ ret = NoRet

\* ------------------------------------------------------------------ dialer
\* A filter whose V6 arm tests is_ipv4() like the V4 arm.
resolved_address_filter_SameArm(resolved_addr, la) ==
  CASE la = "None" -> TRUE
    [] OTHER -> la = "V4"

\* resolved_address_filter(resolved_addr, local_addr), lines 341-352
resolved_address_filter(resolved_addr, la) ==
  CASE la = "None" -> TRUE
    [] resolved_addr.fam = "V4" -> la = "V4"
    [] OTHER -> la = "V6"

\* An iterator that yields the eligible addresses from the back.
NextPos_Reversed(it, la) ==
  LET ok == { i \in 1..Len(it.items) :
                /\ resolved_address_filter(it.items[i], la)
                /\ (it.pos = 0 \/ i < it.pos) }
  IN IF ok = {} THEN 0 ELSE CHOOSE i \in ok : \A j \in ok : i >= j

\* An iterator that starts over from the first eligible address when it
\* has run through the list.
NextPos_Rewind(it, la) ==
  LET all == { i \in 1..Len(it.items) :
                 resolved_address_filter(it.items[i], la) }
      ok == { i \in all : i > it.pos }
  IN IF all = {} THEN 0
     ELSE IF ok = {} THEN CHOOSE i \in all : \A j \in all : i <= j
     ELSE CHOOSE i \in ok : \A j \in ok : i <= j

\* The iterator server.to_socket_addrs()?.filter(..), lines 94-97 and 101:
\* position of the next item after pos that passes the filter, 0 when the
\* iterator is exhausted. pos is the item the loop body last ran for.
NextPos(it, la) ==
  LET ok == { i \in (it.pos + 1)..Len(it.items) :
                resolved_address_filter(it.items[i], la) }
  IN IF ok = {} THEN 0 ELSE CHOOSE i \in ok : \A j \in ok : i <= j

\* A loop that forgets the error of a failed connect.
RecordFailure_Forgotten(addr) == NoErr

\* Err(err) => last_err = Some(err), lines 113 and 118
RecordFailure(addr) == [set |-> TRUE, stage |-> "connect", addr |-> addr.id]

\* A loop that takes every connect for a success, whatever it returned.
ConnectOk_Unchecked(addr) == TRUE

\* The result of socket.connect / socket.connect_timeout matched at lines
\* 111-119: Ok(_) unless the connect to this address fails.
ConnectOk(addr) == addr.fail # "connect"

\* The filtered candidates, in the order the iterator yields them.
Filtered(items, la) ==
  SelectSeq(items, LAMBDA a : resolved_address_filter(a, la))

\* The port bind_local_address binds to, lines 322, 329 and 330.
BindPort == 0

\* A policy without the cfg!(windows) branch.
BindTarget_NoWindows(dst_addr, la) == IF la # "None" THEN la ELSE ""

\* bind_local_address, lines 314-337: the IP address the socket is bound to,
\* "" for no bind. An explicit local address is named by its family.
BindTarget(dst_addr, la) ==
  IF la # "None" THEN la
  ELSE IF windows
         THEN IF dst_addr.fam = "V4" THEN "0.0.0.0" ELSE "::"
         ELSE ""

\* connect(), lines 83-97: the caller's arguments, name resolution and the
\* family filter. A resolution error is returned as a connection error.
ConnectCall ==
  /\ pc = "idle"
  /\ \E t \in Durations, la \in LocalAddrs,
        tp \in TlsParametersOf(features) \cup {NoTls},
        resolveOk \in BOOLEAN, items \in Resolutions :
       /\ timeout' = t
       /\ tls_parameters' = tp
       /\ local_addr' = la
       /\ IF resolveOk
            THEN /\ addrs' = [items |-> items, pos |-> 0]
                 /\ pc' = "dialing"
                 /\ ret' = ret
            ELSE /\ resolveOk = FALSE /\ items = <<>>
                 /\ addrs' = NoIter
                 /\ pc' = "failed"
                 /\ ret' = ErrConnection("connect", "resolve", NoAddr)
  /\ last_err' = NoErr
  /\ UNCHANGED <<build, logs, handshakes, inner, tcp>>

\* One iteration of try_connect's for loop, lines 101-121: create the socket,
\* bind it, connect it.
TryCandidate ==
  /\ pc = "dialing"
  /\ NextPos(addrs, local_addr) # 0
  /\ LET i == NextPos(addrs, local_addr)
         addr == addrs.items[i]
         to == BindTarget(addr, local_addr)
         bound == [addr |-> addr.id, to |-> to, port |-> BindPort]
         tried == [addr |-> addr.id, timed |-> (timeout # "None")]
         made(ok) == [addr |-> addr.id, domain |-> addr.fam, ok |-> ok]
     IN /\ addrs' = [addrs EXCEPT !.pos = i]
        /\ IF addr.fail = "socket"
             THEN \* Socket::new(..).map_err(error::connection)?
                  /\ pc' = "failed"
                  /\ ret' = ErrConnection("connect", "socket", addr.id)
                  /\ sockets' = Append(sockets, made(FALSE))
                  /\ UNCHANGED <<last_err, binds, attempts, inner, tcp>>
             ELSE IF to # "" /\ addr.fail = "bind"
             THEN \* bind_local_address(&socket, &addr, local_addr)?
                  /\ pc' = "failed"
                  /\ ret' = ErrConnection("connect", "bind", addr.id)
                  /\ sockets' = Append(sockets, made(TRUE))
                  /\ binds' = Append(binds, bound)
                  /\ UNCHANGED <<last_err, attempts, inner, tcp>>
             ELSE /\ sockets' = Append(sockets, made(TRUE))
                  /\ binds' = IF to # "" THEN Append(binds, bound) ELSE binds
                  /\ attempts' = Append(attempts, tried)
                  /\ IF ~ConnectOk(addr)
                       THEN \* Err(err) => last_err = Some(err)
                            /\ last_err' = RecordFailure(addr)
                            /\ UNCHANGED <<pc, ret, inner, tcp>>
                       ELSE \* Ok(_) => return Ok(socket.into()), then
                            \* NetworkStream::new(InnerNetworkStream::Tcp(..))
                            /\ pc' = "dialed"
                            /\ inner' = [tag |-> TcpTag, sock |-> addr.id]
                            /\ tcp' = [peer |-> addr.id, open |-> TRUE,
                                       shut |-> {}, rt |-> "None",
                                       wt |-> "None"]
                            /\ UNCHANGED <<last_err, ret>>
  /\ UNCHANGED <<build, args, handshakes>>

\* try_connect after the loop, lines 123-126.
Exhausted ==
  /\ pc = "dialing"
  /\ NextPos(addrs, local_addr) = 0
  /\ pc' = "failed"
  /\ ret' = IF last_err.set
              THEN ErrConnection("connect", last_err.stage, last_err.addr)
              ELSE ErrConnection("connect",
                                 "could not resolve to any address", NoAddr)
  /\ UNCHANGED <<build, args, addrs, last_err, logs, handshakes, inner, tcp>>

\* ----------------------------------------------------------- TLS upgrade
\* An upgrade that builds the encrypted variant without looking at the
\* results of the domain check and of the handshake.
upgrade_tls_impl_Unchecked(sock, p) ==
  [ok |-> TRUE,
   tag |-> IF p.connector = "native-tls" THEN "NativeTls" ELSE "RustlsTls",
   cause |-> ""]

\* upgrade_tls_impl(tcp_stream, tls_parameters), lines 161-184: the variant
\* built on success, or the connection error. native-tls checks the domain
\* inside connector.connect; rustls parses it with ServerName::try_from first.
upgrade_tls_impl(sock, p) ==
  IF p.connector = "native-tls"
    THEN IF p.domainValid /\ p.hsOk
           THEN [ok |-> TRUE, tag |-> "NativeTls", cause |-> ""]
           ELSE [ok |-> FALSE, tag |-> "", cause |-> "handshake"]
    ELSE IF ~p.domainValid
           THEN [ok |-> FALSE, tag |-> "",
                 cause |-> "domain isn't a valid DNS name"]
           ELSE IF ~p.hsOk
                  THEN [ok |-> FALSE, tag |-> "", cause |-> "handshake"]
                  ELSE [ok |-> TRUE, tag |-> "RustlsTls", cause |-> ""]

\* The value left in self.inner when upgrade_tls_impl fails at line 154: the
\* `?` returns before the assignment, so the InnerNetworkStream::None stored by
\* mem::replace at line 148 stays.
InnerAfterFailedUpgrade(in) == [tag |-> NoneTag, sock |-> NoAddr]

\* A match that also sends the encrypted variants into the upgrade arm.
IsTcpArm_Any(in) == in.tag # NoneTag

\* The pattern InnerNetworkStream::Tcp(_) of upgrade_tls's match, line 146;
\* every other variant takes `_ => Ok(())`, line 157.
IsTcpArm(in) == in.tag = TcpTag

\* A build that takes the upgrading arm with no backend compiled in.
NoBackend_Never(feats) == FALSE

\* #[cfg(not(any(feature = "native-tls", feature = "rustls-tls")))], line 139
NoBackend(feats) == feats = {}

\* upgrade_tls(&mut self, tls_parameters), lines 137-159:
\* [inner, tcp, ret, hs] after the call, hs being the upgrade_tls_impl calls.
\* ret.via is the variant the match dispatched on.
upgrade_tls(in, sk, p) ==
  IF IsTcpArm(in)
    THEN IF NoBackend(features)
           THEN [inner |-> in, tcp |-> sk, hs |-> <<>>,
                 ret |-> Panic("upgrade_tls", "no TLS feature enabled")]
           ELSE LET r == upgrade_tls_impl(in.sock, p)
                    h == [sock |-> in.sock, backend |-> p.connector,
                          ok |-> r.ok]
                IN IF r.ok
                     THEN [inner |-> [tag |-> r.tag, sock |-> in.sock],
                           tcp |-> sk, hs |-> <<h>>,
                           ret |-> Ret("upgrade_tls", "Ok", "", "", NoAddr,
                                       in.tag)]
                     ELSE [inner |-> InnerAfterFailedUpgrade(in),
                           tcp |-> [sk EXCEPT !.open = FALSE], hs |-> <<h>>,
                           ret |-> ErrConnection("upgrade_tls", r.cause,
                                                 NoAddr)]
    ELSE [inner |-> in, tcp |-> sk, hs |-> <<>>,
          ret |-> Ret("upgrade_tls", "Ok", "", "", NoAddr, in.tag)]

\* connect(), lines 130-134, after try_connect returned the socket: upgrade
\* when TLS parameters were given, then return the stream. An upgrade error
\* drops the stream with the `?`.
ConnectFinish ==
  /\ pc = "dialed"
  /\ IF tls_parameters = NoTls
       THEN /\ pc' = "ready"
            /\ ret' = Ret("connect", "Ok", "", "", tcp.peer, inner.tag)
            /\ UNCHANGED <<inner, tcp, handshakes>>
       ELSE LET u == upgrade_tls(inner, tcp, tls_parameters)
            IN /\ handshakes' = handshakes \o u.hs
               /\ CASE u.ret.res = "Ok" ->
                         /\ pc' = "ready"
                         /\ inner' = u.inner
                         /\ tcp' = u.tcp
                         /\ ret' = Ret("connect", "Ok", "", "", tcp.peer,
                                       u.inner.tag)
                    [] u.ret.res = "Err" ->
                         /\ pc' = "failed"
                         /\ inner' = NoInner
                         /\ tcp' = NoTcp
                         /\ ret' = [u.ret EXCEPT !.op = "connect"]
                    [] OTHER ->
                         /\ pc' = "aborted"
                         /\ inner' = NoInner
                         /\ tcp' = NoTcp
                         /\ ret' = [u.ret EXCEPT !.op = "connect"]
  /\ UNCHANGED <<build, args, addrs, last_err, logs>>

\* --------------------------------------------------------- handle operations
\* The caller holds the stream; connect's frame (its arguments, try_connect's
\* locals and the logs of that call) is gone once the caller uses the handle.
Holding == pc = "ready"

DropFrame ==
  /\ timeout' = "None"
  /\ tls_parameters' = NoTls
  /\ local_addr' = "None"
  /\ addrs' = NoIter
  /\ last_err' = NoErr
  /\ sockets' = <<>>
  /\ binds' = <<>>
  /\ attempts' = <<>>

\* A call returned r: a panic ends the program.
Return(r) ==
  /\ ret' = r
  /\ pc' = IF r.res = "Panic" THEN "aborted" ELSE "ready"

\* The InnerNetworkStream::None arm shared by peer_addr, shutdown,
\* is_encrypted, set_*_timeout, read, write and flush:
\* debug_assert!(false, ..) and then the made-up value.
NoneArm(op, value, addr) ==
  IF debug_assertions
    THEN Panic(op, "InnerNetworkStream::None must never be built")
    ELSE Ret(op, "Ok", "", value, addr, NoneTag)

\* An arm that delegates to the TcpStream (directly, or through get_ref() or
\* the TLS session): the socket's io::Result, passed through.
Delegated(op, in, ioOk, value, addr) ==
  IF ioOk THEN Ret(op, "Ok", "", value, addr, in.tag)
          ELSE Ret(op, "Err", "io", "", NoAddr, in.tag)

\* peer_addr(&self), lines 51-66
peer_addr(in, sk, ioOk) ==
  IF in.tag = NoneTag THEN NoneArm("peer_addr", "", FabricatedAddr)
  ELSE Delegated("peer_addr", in, ioOk, "", sk.peer)

\* shutdown(&self, how), lines 69-81
shutdown(in, ioOk) ==
  IF in.tag = NoneTag THEN NoneArm("shutdown", "()", NoAddr)
  ELSE Delegated("shutdown", in, ioOk, "()", in.sock)

\* is_encrypted(&self), lines 186-198
is_encrypted(in) ==
  CASE in.tag = TcpTag -> Ret("is_encrypted", "Ok", "", "false", NoAddr, in.tag)
    [] in.tag \in EncryptedTags ->
         Ret("is_encrypted", "Ok", "", "true", NoAddr, in.tag)
    [] OTHER -> NoneArm("is_encrypted", "false", NoAddr)

\* peer_certificate(&self), lines 200-222; certOk: the backend has the
\* peer's certificate (else unwrap() panics), derOk: native-tls's
\* peer_certificate() and to_der() succeed.
peer_certificate(in, certOk, derOk) ==
  CASE in.tag = TcpTag ->
         ErrClient("peer_certificate", "Connection is not encrypted")
    [] in.tag = "NativeTls" ->
         IF ~derOk THEN ErrTls("peer_certificate", "backend")
         ELSE IF ~certOk THEN Panic("peer_certificate", "unwrap on None")
         ELSE Ret("peer_certificate", "Ok", "", "der", in.sock, in.tag)
    [] in.tag = "RustlsTls" ->
         IF ~certOk THEN Panic("peer_certificate", "unwrap on None")
         ELSE Ret("peer_certificate", "Ok", "", "der", in.sock, in.tag)
    [] OTHER ->
         Panic("peer_certificate",
               "InnerNetworkStream::None must never be built")

\* set_read_timeout / set_write_timeout, lines 224-261
set_timeout(op, in, ioOk) ==
  IF in.tag = NoneTag THEN NoneArm(op, "()", NoAddr)
  ELSE Delegated(op, in, ioOk, "()", in.sock)

\* Read::read and Write::write, lines 265-293: Ok(n), n the byte count.
transfer(op, in, ioOk) ==
  IF in.tag = NoneTag THEN NoneArm(op, "0", NoAddr)
  ELSE Delegated(op, in, ioOk, "n", in.sock)

\* Write::flush, lines 295-307
flush(in, ioOk) ==
  IF in.tag = NoneTag THEN NoneArm("flush", "()", NoAddr)
  ELSE Delegated("flush", in, ioOk, "()", in.sock)

Delivered(r) == r.res = "Ok" /\ r.via # NoneTag

\* A shutdown that takes the TLS layer down with the transport.
Borrowed_Teardown(op, in) ==
  IF op = "shutdown" /\ in.tag \in EncryptedTags
    THEN [tag |-> TcpTag, sock |-> in.sock] ELSE in

\* self.inner after a method other than upgrade_tls: each of them only
\* borrows the variant (match self.inner { ..(ref s) => .. }) and never
\* assigns it.
Borrowed(op, in) == in

UpgradeTls ==
  /\ Holding
  /\ \E p \in TlsParametersOf(features) :
       LET u == upgrade_tls(inner, tcp, p)
       IN /\ inner' = u.inner
          /\ tcp' = u.tcp
          /\ handshakes' = handshakes \o u.hs
          /\ Return(u.ret)
  /\ DropFrame
  /\ UNCHANGED build

PeerAddr ==
  /\ Holding
  /\ \E ioOk \in BOOLEAN : Return(peer_addr(inner, tcp, ioOk))
  /\ DropFrame
  /\ inner' = Borrowed("peer_addr", inner)
  /\ UNCHANGED <<build, handshakes, tcp>>

ShutdownCall ==
  /\ Holding
  /\ \E how \in Shutdowns, ioOk \in BOOLEAN :
       LET r == shutdown(inner, ioOk)
           dirs == IF how = "Both" THEN {"Read", "Write"} ELSE {how}
       IN /\ Return(r)
          /\ tcp' = IF Delivered(r)
                      THEN [tcp EXCEPT !.shut = @ \cup dirs] ELSE tcp
  /\ DropFrame
  /\ inner' = Borrowed("shutdown", inner)
  /\ UNCHANGED <<build, handshakes>>

IsEncrypted ==
  /\ Holding
  /\ Return(is_encrypted(inner))
  /\ DropFrame
  /\ inner' = Borrowed("is_encrypted", inner)
  /\ UNCHANGED <<build, handshakes, tcp>>

PeerCertificate ==
  /\ Holding
  /\ features # {}
  /\ \E certOk \in BOOLEAN, derOk \in BOOLEAN :
       Return(peer_certificate(inner, certOk, derOk))
  /\ DropFrame
  /\ inner' = Borrowed("peer_certificate", inner)
  /\ UNCHANGED <<build, handshakes, tcp>>

SetReadTimeout ==
  /\ Holding
  /\ \E d \in Durations, ioOk \in BOOLEAN :
       LET r == set_timeout("set_read_timeout", inner, ioOk)
       IN /\ Return(r)
          /\ tcp' = IF Delivered(r) THEN [tcp EXCEPT !.rt = d] ELSE tcp
  /\ DropFrame
  /\ inner' = Borrowed("set_read_timeout", inner)
  /\ UNCHANGED <<build, handshakes>>

SetWriteTimeout ==
  /\ Holding
  /\ \E d \in Durations, ioOk \in BOOLEAN :
       LET r == set_timeout("set_write_timeout", inner, ioOk)
       IN /\ Return(r)
          /\ tcp' = IF Delivered(r) THEN [tcp EXCEPT !.wt = d] ELSE tcp
  /\ DropFrame
  /\ inner' = Borrowed("set_write_timeout", inner)
  /\ UNCHANGED <<build, handshakes>>

ReadCall ==
  /\ Holding
  /\ \E ioOk \in BOOLEAN : Return(transfer("read", inner, ioOk))
  /\ DropFrame
  /\ inner' = Borrowed("read", inner)
  /\ UNCHANGED <<build, handshakes, tcp>>

WriteCall ==
  /\ Holding
  /\ \E ioOk \in BOOLEAN : Return(transfer("write", inner, ioOk))
  /\ DropFrame
  /\ inner' = Borrowed("write", inner)
  /\ UNCHANGED <<build, handshakes, tcp>>

FlushCall ==
  /\ Holding
  /\ \E ioOk \in BOOLEAN : Return(flush(inner, ioOk))
  /\ DropFrame
  /\ inner' = Borrowed("flush", inner)
  /\ UNCHANGED <<build, handshakes, tcp>>

Next ==
  \/ ConnectCall
  \/ TryCandidate
  \/ Exhausted
  \/ ConnectFinish
  \/ UpgradeTls
  \/ PeerAddr
  \/ ShutdownCall
  \/ IsEncrypted
  \/ PeerCertificate
  \/ SetReadTimeout
  \/ SetWriteTimeout
  \/ ReadCall
  \/ WriteCall
  \/ FlushCall

Spec == Init /\ [][Next]_vars

\* ================================================================= claims
\* try_connect has returned (to connect, or through it to the caller): the
\* socket was handed over, or the pass ended in an error before any upgrade.
DialOk == pc = "dialed"
DialErr == pc = "failed" /\ handshakes = <<>> /\ ret.cause # "resolve"
DialEnded == DialOk \/ DialErr

\* Eligibility as the specification words it: same family as the local
\* address, or no local address.
Eligible(a) == local_addr = "None" \/ a.fam = local_addr

\* A candidate the operating system would let through socket creation, the
\* bind the policy performs for it, and the connect.
Connectable(a) ==
  \/ a.fail = "none"
  \/ a.fail = "bind" /\ BindTarget(a, local_addr) = ""

EligibleIdx == { i \in DOMAIN addrs.items : Eligible(addrs.items[i]) }
ConnectableIdx == { i \in EligibleIdx : Connectable(addrs.items[i]) }
Min(S) == CHOOSE i \in S : \A j \in S : i <= j
Max(S) == CHOOSE i \in S : \A j \in S : i >= j

\* An upgrade attempt on this handle failed / succeeded.
UpgradeFailed == \E i \in DOMAIN handshakes : ~handshakes[i].ok
UpgradeSucceeded == \E i \in DOMAIN handshakes : handshakes[i].ok
InCallerHands == pc \in {"ready", "aborted"} /\ inner.tag # GoneTag

NonUpgradeOps ==
  {"peer_addr", "shutdown", "is_encrypted", "peer_certificate",
   "set_read_timeout", "set_write_timeout", "read", "write", "flush"}

\* C1: whenever the caller holds the handle between calls (a call may begin,
\* or upgrade_tls has just returned Ok or Err), inner is not the transient
\* InnerNetworkStream::None.
C1_EmptyNeverObservable == Holding => inner.tag # NoneTag

\* C2: after upgrade_tls failed on a Plain handle, every non-upgrade operation
\* behaves as on the plain connection: it is dispatched on the Tcp variant of
\* the original socket, is_encrypted() is false, peer_addr() reports the
\* original peer and peer_certificate() returns the usage error.
C2_PlainFallbackAfterFailedUpgrade ==
  (InCallerHands /\ UpgradeFailed /\ ret.op \in NonUpgradeOps) =>
    /\ ret.res # "Panic"
    /\ ret.op = "peer_certificate" =>
         ret = ErrClient("peer_certificate", "Connection is not encrypted")
    /\ ret.op # "peer_certificate" => ret.via = TcpTag
    /\ ret.op = "is_encrypted" => ret.cause = "false"
    /\ (ret.op = "peer_addr" /\ ret.res = "Ok") =>
         ret.addr = handshakes[1].sock
    /\ (ret.op \in {"read", "write", "flush"} /\ ret.res = "Ok") =>
         ret.addr = handshakes[1].sock

\* C3: when the dialer returns and some filtered candidate is connectable, it
\* returned a socket connected to the first connectable candidate, whatever
\* failure the earlier candidates produced.
C3_FirstConnectableWins ==
  (DialEnded /\ ConnectableIdx # {}) =>
    /\ DialOk
    /\ inner = [tag |-> TcpTag, sock |-> Min(ConnectableIdx)]
    /\ tcp.peer = Min(ConnectableIdx)

\* C4: when the filtered candidates are non-empty and none is connectable, the
\* dialer returns a connection error whose cause is the failure of the last
\* candidate of the sequence.
C4_LastCandidateError ==
  (DialEnded /\ EligibleIdx # {} /\ ConnectableIdx = {}) =>
    /\ DialErr
    /\ ret.res = "Err"
    /\ ret.kind = "connection"
    /\ ret.addr = Max(EligibleIdx)

NoAddressMessage == "could not resolve to any address"

\* C5: with no filtered candidate the dialer creates no socket, attempts no
\* connect and returns the connection error "could not resolve to any
\* address"; that message is never returned once the loop body ran for a
\* candidate.
C5_EmptyCandidates ==
  /\ (DialEnded /\ EligibleIdx = {}) =>
       /\ sockets = <<>> /\ binds = <<>> /\ attempts = <<>>
       /\ ret = ErrConnection("connect", NoAddressMessage, NoAddr)
  /\ (pc = "failed" /\ ret.cause = NoAddressMessage) =>
       /\ ret.kind = "connection"
       /\ addrs.pos = 0 /\ sockets = <<>> /\ attempts = <<>>

\* C5 witness: every resolved address was removed by the family filter and
\* the fixed message came back.
C5_Witness ==
  /\ DialErr /\ addrs.items # <<>> /\ EligibleIdx = {}
  /\ ret.cause = NoAddressMessage

\* C6: no socket is created for, and no bind or connect attempted on, a
\* candidate of the other family than the local address; with no local
\* address no resolved candidate is passed over; the candidates are taken in
\* resolution order with no eligible one skipped.
C6_FamilyFilter ==
  /\ \A k \in DOMAIN sockets :
       /\ Eligible(addrs.items[sockets[k].addr])
       /\ sockets[k].domain = addrs.items[sockets[k].addr].fam
       /\ k > 1 => sockets[k - 1].addr < sockets[k].addr
  /\ \A k \in DOMAIN attempts : Eligible(addrs.items[attempts[k].addr])
  /\ \A k \in DOMAIN binds : Eligible(addrs.items[binds[k].addr])
  /\ \A i \in EligibleIdx :
       i <= addrs.pos => \E k \in DOMAIN sockets : sockets[k].addr = i
  /\ (pc = "dialing" /\ EligibleIdx # {} /\ sockets = <<>>) => addrs.pos = 0
  /\ (local_addr = "None" /\ pc \in {"dialing", "dialed", "failed"}) =>
       Len(sockets) = addrs.pos

\* C6 witness: a V4 local address, a resolver answer starting with a V6
\* address, and the loop went straight to the V4 address behind it.
C6_Witness ==
  /\ local_addr = "V4" /\ Len(addrs.items) >= 2
  /\ addrs.items[1].fam = "V6"
  /\ Len(sockets) = 1 /\ sockets[1].addr = 2 /\ Len(attempts) = 1

\* C7: right after a plain connect is_encrypted() is false, and right after
\* every upgrade_tls that returned Ok it is true.
C7_EncryptedAfterUpgrade ==
  /\ (Holding /\ ret.op = "connect" /\ tls_parameters = NoTls) =>
       is_encrypted(inner).cause = "false"
  /\ (Holding /\ ret.op = "upgrade_tls" /\ ret.res = "Ok") =>
       /\ is_encrypted(inner).res = "Ok"
       /\ is_encrypted(inner).cause = "true"
       /\ inner.tag \in EncryptedTags

\* C8: upgrade_tls on an encrypted handle returns Ok, runs no handshake and
\* leaves the variant and the socket as they were; at most one handshake of a
\* handle succeeds.
C8_UpgradeIdempotent ==
  /\ [](Cardinality({ i \in DOMAIN handshakes : handshakes[i].ok }) <= 1)
  /\ [][(UpgradeTls /\ inner.tag \in EncryptedTags) =>
          /\ ret'.res = "Ok"
          /\ inner' = inner
          /\ tcp' = tcp
          /\ handshakes' = handshakes]_vars

\* C8 witness: upgrade_tls returned Ok from the arm of an encrypted variant.
C8_Witness ==
  /\ Holding /\ ret.op = "upgrade_tls" /\ ret.res = "Ok"
  /\ ret.via \in EncryptedTags /\ UpgradeSucceeded

\* C9: peer_certificate() on a handle that was never successfully upgraded
\* returns the client error, also after a failed upgrade attempt.
C9_CertificateUsageError ==
  (InCallerHands /\ ret.op = "peer_certificate" /\ ~UpgradeSucceeded) =>
    ret = ErrClient("peer_certificate", "Connection is not encrypted")

\* C10: an operation invoked while the handle holds InnerNetworkStream::None
\* aborts; it returns neither a value nor an error.
C10_EmptyAborts ==
  (inner.tag = NoneTag /\ ret.op \in NonUpgradeOps) => ret.res = "Panic"

\* connect() is running or has just returned: its arguments, try_connect's
\* locals and the logs of the call are those of this call.
InConnectFrame == ret.op \in {"", "connect"}

SocketIds == [k \in DOMAIN sockets |-> sockets[k].addr]
AttemptIds == [k \in DOMAIN attempts |-> attempts[k].addr]
Increasing(q) == \A k \in DOMAIN q : k > 1 => q[k - 1] < q[k]

\* C11: the stream is built Plain, and the only change its variant ever makes
\* while the caller holds it is Tcp to an encrypted variant over the same
\* socket; an encrypted variant never changes and None never appears.
C11_Lifecycle ==
  /\ [](pc = "dialed" => inner.tag = TcpTag)
  /\ [][(Holding /\ inner' # inner) =>
          /\ inner.tag = TcpTag
          /\ inner'.tag \in EncryptedTags
          /\ inner'.sock = inner.sock]_vars

\* C12: with no TLS backend compiled in, upgrade_tls on a Plain handle panics
\* (no Ok, no Err), and connect() with TLS parameters panics in the step that
\* follows the successful plain connect.
C12_NoBackendPanics ==
  /\ [][(UpgradeTls /\ features = {} /\ inner.tag = TcpTag) =>
          /\ ret' = Panic("upgrade_tls", "no TLS feature enabled")
          /\ pc' = "aborted"
          /\ handshakes' = handshakes]_vars
  /\ [][(ConnectFinish /\ features = {} /\ tls_parameters # NoTls) =>
          /\ inner.tag = TcpTag /\ tcp.open
          /\ ret'.op = "connect" /\ ret'.res = "Panic"
          /\ pc' = "aborted"]_vars
  /\ []((features = {} /\ pc = "ready") => inner.tag = TcpTag)

\* C12 witness: a build without backend aborted in upgrade_tls.
C12_Witness ==
  /\ features = {} /\ pc = "aborted"
  /\ ret.op = "upgrade_tls" /\ ret.res = "Panic" /\ inner.tag = TcpTag

\* C13: sockets are created and connects attempted in resolution order;
\* every attempt but the last one failed; the attempt that succeeded is the
\* last one, and once the dialer has returned no socket is created and no
\* connect attempted any more.
C13_OrderedOneAtATime ==
  /\ [](InConnectFrame =>
          /\ Increasing(SocketIds) /\ Increasing(AttemptIds)
          /\ \A k \in DOMAIN attempts :
               /\ \E j \in DOMAIN sockets :
                    sockets[j].addr = attempts[k].addr /\ sockets[j].ok
               /\ (k < Len(attempts) \/ pc = "dialing") =>
                    addrs.items[attempts[k].addr].fail = "connect"
          /\ pc = "dialed" =>
               /\ attempts # <<>>
               /\ attempts[Len(attempts)].addr = tcp.peer
               /\ sockets[Len(sockets)].addr = tcp.peer
               /\ addrs.items[tcp.peer].fail # "connect")
  /\ [][(pc # "dialing") =>
          /\ Len(sockets') <= Len(sockets)
          /\ Len(attempts') <= Len(attempts)]_vars

\* C13 witness: two connectable candidates, the first one won and the second
\* was never touched.
C13_Witness ==
  /\ pc = "dialed" /\ Len(addrs.items) = 2
  /\ \A i \in 1..2 : addrs.items[i].fail = "none" /\ Eligible(addrs.items[i])
  /\ SocketIds = <<1>> /\ AttemptIds = <<1>>

\* C14: when the dialer returns an error, the loop body has run for every
\* filtered candidate.
C14_FailureContinues ==
  DialErr => \A i \in EligibleIdx :
               \E k \in DOMAIN sockets : sockets[k].addr = i

\* The policy of 4.2 needs a bind for every candidate: an explicit local
\* address, or a platform that requires a bound socket.
BindRequired == local_addr # "None" \/ windows

\* C15: while connect() runs, a handshake is logged only after try_connect
\* handed over a connected socket: there is at most one, it is on the socket
\* of the last connect attempt, and that attempt succeeded; a failed dial
\* leaves the handshake log empty.
C15_HandshakeAfterDial ==
  InConnectFrame =>
    /\ pc \in {"idle", "dialing", "dialed"} => handshakes = <<>>
    /\ Len(handshakes) <= 1
    /\ handshakes # <<>> =>
         /\ attempts # <<>>
         /\ handshakes[1].sock = attempts[Len(attempts)].addr
         /\ addrs.items[handshakes[1].sock].fail # "connect"
         /\ tls_parameters # NoTls
    /\ (pc = "failed" /\ ret.cause \in {"socket", "bind", "connect",
                                        "resolve", NoAddressMessage}) =>
         handshakes = <<>>

\* C15 witness: the first candidate's connect failed, the second one's
\* succeeded, and the one handshake of the call ran on the second socket.
C15_Witness ==
  /\ pc = "ready" /\ ret.op = "connect"
  /\ AttemptIds = <<1, 2>> /\ Len(handshakes) = 1
  /\ handshakes[1].sock = 2 /\ handshakes[1].ok

\* C16: every bind is to the explicit local address, or, with none, on
\* Windows to the unspecified address of the candidate's family, always with
\* port 0; elsewhere no bind is made; every socket that was created got the
\* bind the policy requires, and no connect is attempted after a failed bind.
C16_BindingPolicy ==
  InConnectFrame =>
    /\ \A k \in DOMAIN binds :
         /\ binds[k].port = 0
         /\ local_addr # "None" => binds[k].to = local_addr
         /\ local_addr = "None" =>
              /\ windows
              /\ binds[k].to =
                   IF addrs.items[binds[k].addr].fam = "V4" THEN "0.0.0.0"
                                                            ELSE "::"
    /\ ~BindRequired => binds = <<>>
    /\ BindRequired =>
         /\ \A k \in DOMAIN sockets :
              sockets[k].ok => \E j \in DOMAIN binds :
                                 binds[j].addr = sockets[k].addr
         /\ \A k \in DOMAIN attempts :
              /\ \E j \in DOMAIN binds : binds[j].addr = attempts[k].addr
              /\ addrs.items[attempts[k].addr].fail # "bind"
    /\ Len(binds) <= Len(sockets)

\* C16 witness: Windows, no local address, a V6 candidate: the socket was
\* bound to [::]:0 and then connected.
C16_Witness ==
  /\ windows /\ local_addr = "None" /\ pc = "dialed"
  /\ binds = <<[addr |-> 1, to |-> "::", port |-> 0]>>
  /\ AttemptIds = <<1>>

\* C17: whenever peer_addr() returns an address, whatever the variant, it is
\* the address of the socket the dialer connected (so the same before and
\* after an upgrade), never a made-up one.
C17_PeerAddrIsDialedSocket ==
  (InCallerHands /\ ret.op = "peer_addr" /\ ret.res = "Ok") =>
    /\ ret.addr = tcp.peer
    /\ ret.addr # FabricatedAddr

\* C18: a call of peer_addr, shutdown, set_read_timeout, set_write_timeout,
\* is_encrypted, peer_certificate, read, write or flush, whatever it returns,
\* leaves the variant as it was, so is_encrypted() answers the same before and
\* after.
C18_OnlyUpgradeChangesVariant ==
  [][(Holding /\ ret'.op \in NonUpgradeOps) =>
       /\ inner' = inner
       /\ is_encrypted(inner').cause = is_encrypted(inner).cause]_vars

\* C18 witness: shutdown succeeded on an encrypted handle, which still
\* reports encrypted.
C18_Witness ==
  /\ Holding /\ ret.op = "shutdown" /\ ret.res = "Ok"
  /\ tcp.shut = {"Read", "Write"}
  /\ inner.tag \in EncryptedTags /\ is_encrypted(inner).cause = "true"

\* Every connect attempt returns, so the loop body and the code after the
\* loop are not held up for ever.
LiveSpec == Spec /\ WF_vars(TryCandidate) /\ WF_vars(Exhausted)

\* C19: the dialer makes at most one socket and one connect attempt per
\* filtered candidate, never the same candidate twice, moves forward in the
\* list with every iteration, and always ends with a result.
C19_SinglePassTerminates ==
  /\ [](InConnectFrame =>
          /\ Len(attempts) <= Cardinality(EligibleIdx)
          /\ Len(sockets) <= Cardinality(EligibleIdx)
          /\ \A j, k \in DOMAIN attempts :
               attempts[j].addr = attempts[k].addr => j = k
          /\ \A j, k \in DOMAIN sockets :
               sockets[j].addr = sockets[k].addr => j = k)
  /\ [][(pc = "dialing" /\ pc' = "dialing") => addrs'.pos > addrs.pos]_vars
  /\ [][(pc \in {"dialed", "failed"}) => pc' # "dialing"]_vars
  /\ ((pc = "dialing") ~> (pc \in {"dialed", "failed"}))

\* C19 witness: a pass over two candidates that both failed to connect ended
\* with an error after two attempts.
C19_Witness ==
  /\ pc = "failed" /\ Cardinality(EligibleIdx) = 2
  /\ AttemptIds = <<1, 2>> /\ ret.cause = "connect" /\ ret.addr = 2

\* C20: a stream returned by connect() is never None; it is Tcp when no TLS
\* parameters were given and the encrypted variant of the parameters' backend
\* (after a domain check and handshake that succeeded) when they were; when
\* the handshake fails after a successful dial, connect() returns a connection
\* error and the stream is dropped.
C20_ConnectOutcome ==
  /\ (ret.op = "connect" /\ pc = "ready") =>
       /\ ret.res = "Ok"
       /\ inner.tag # NoneTag
       /\ inner.sock = tcp.peer /\ tcp.open
       /\ tls_parameters = NoTls => inner.tag = TcpTag /\ handshakes = <<>>
       /\ tls_parameters # NoTls =>
            /\ inner.tag \in EncryptedTags
            /\ tls_parameters.domainValid /\ tls_parameters.hsOk
            /\ inner.tag = IF tls_parameters.connector = "native-tls"
                             THEN "NativeTls" ELSE "RustlsTls"
  /\ (ret.op = "connect" /\ ret.res # "Ok") => inner = NoInner
  /\ (ret.op = "connect" /\ handshakes # <<>> /\ ~handshakes[1].ok) =>
       /\ pc = "failed"
       /\ ret.res = "Err" /\ ret.kind = "connection"
       /\ inner = NoInner

\* C20 witness: the dial succeeded, the handshake failed, and connect()
\* returned the connection error without a stream.
C20_Witness ==
  /\ ret.op = "connect" /\ pc = "failed" /\ AttemptIds # <<>>
  /\ Len(handshakes) = 1 /\ ~handshakes[1].ok /\ inner = NoInner
====
